---- MODULE Spec2Model ----
(***************************************************************************)
(* Model of src/src/renderer.py (MemeScript-Py): render_meme and its       *)
(* helpers _wrap_text_for_width, _measure_block_height,                    *)
(* _truncate_line_to_width, _shrink_lines_to_height, _fit_font_and_lines   *)
(* and the two draw loops.                                                 *)
(* The last section models the window of src/src/main.py: the click        *)
(* handlers, the worker threads and the queue of self.after callbacks.     *)
(*                                                                         *)
(* A text is a sequence of one-character strings.  The characters are "a"  *)
(* (a narrow, low glyph), "W" (a wide, tall glyph), " " and the ellipsis   *)
(* U+2026, written "..." here and counted as ONE character.  The alphabet  *)
(* has no hyphen, tab or newline, so str.split() and textwrap.wrap only    *)
(* ever see spaces as separators.                                          *)
(*                                                                         *)
(* Pillow's draw.textbbox is outside the repository: TextWidth and         *)
(* TextHeight stand for it, for a TrueType font whose glyph boxes grow     *)
(* with the size and for ImageFont.load_default(), whose boxes do not.     *)
(* Which of the two _safe_load_font returns depends on the font files of   *)
(* the machine; the model draws it in Init (args.ttf).                     *)
(* The truncation specification takes a font given by one advance width   *)
(* per character (kind "metrics").                                         *)
(*                                                                         *)
(* Python's int(a * r) for a ratio r, and int(m / (width / len)), are      *)
(* modelled as exact integer arithmetic (the ratio in percent, truncation  *)
(* toward zero); on the values used here the float results agree.          *)
(*                                                                         *)
(* textwrap.wrap is only ever given a line wider than max_width, and with  *)
(* additive glyph widths such a line is a single word: TextwrapWrap        *)
(* models the call for a line without whitespace.                          *)
(***************************************************************************)
EXTENDS Integers, Sequences, FiniteSets, TLC

VARIABLES
    args,            \* the arguments of render_meme (fixed during a call)
    pc,              \* position in render_meme
    w, h,            \* img.size after _reduce_image_if_needed
    size,            \* _fit_font_and_lines: candidate size
    path,            \* which return of _fit_font_and_lines is taken (1, 2, 3)
    font,            \* the font f of the current iteration / the returned font
    top_lines, bottom_lines,
    top_h, bottom_h, \* block heights measured before shrinking (lines 225-226)
    slot,            \* the caption _shrink_lines_to_height is working on
    new_lines,       \* _shrink_lines_to_height: new_lines
    allowed_h,       \* _shrink_lines_to_height: allowed_h
    shrunk,          \* slots whose block went through truncation/merging
    used_font_size,
    y, idx,          \* draw loops: y and the index of the next line
    y_bottom_start,
    drawn,           \* the calls of _draw_text_with_stroke made so far
    wrapped,         \* WrapSpec only: the result of _wrap_text_for_width
    \* MemeApp (src/src/main.py)
    buttons_state,   \* state of btn_test_api, btn_generate and entry_custom
    lbl_status,      \* which message lbl_status shows
    canvas_image,    \* whether canvas shows an image
    ui,              \* position of the UI thread: the main loop or a handler
    threads,         \* the worker threads that are alive
    after_queue      \* callbacks registered with self.after(0, ...), in order

\* the variables of a call of render_meme
render_vars == <<args, pc, w, h, size, path, font, top_lines, bottom_lines,
                 top_h, bottom_h, slot, new_lines, allowed_h, shrunk,
                 used_font_size, y, idx, y_bottom_start, drawn, wrapped>>

\* the variables of the application window
gui_vars == <<buttons_state, lbl_status, canvas_image, ui, threads,
              after_queue>>

vars == <<render_vars, gui_vars>>

\* the window after MemeApp.__init__ (lines 66-107), no click made yet
GuiInitial ==
    /\ buttons_state = "normal"
    /\ lbl_status = "listo"
    /\ canvas_image = FALSE
    /\ ui = "mainloop"
    /\ threads = {}
    /\ after_queue = <<>>

----------------------------------------------------------------------------
(* Bounds and input sets *)

MaxTop == 4          \* longest top caption of the render specification
MaxWrapLen == 6      \* longest text of the wrapping specification
MaxTruncLen == 4     \* longest line of the truncation specification
MaxThreads == 2      \* most worker threads of the window alive at once

Chars == {"a", "W", " "}
ellipsis == "..."

RECURSIVE TextsOfLen(_)
TextsOfLen(n) ==
    IF n = 0 THEN {<<>>}
    ELSE {Append(t, c) : t \in TextsOfLen(n - 1), c \in Chars}

Texts(n) == UNION {TextsOfLen(k) : k \in 0..n}

----------------------------------------------------------------------------
(* Python arithmetic *)

Max(a, b) == IF a >= b THEN a ELSE b
Min(a, b) == IF a <= b THEN a ELSE b

\* int(n / d) for integers n and d > 0: truncation toward zero
IntDiv(n, d) == IF n >= 0 THEN n \div d ELSE -((-n) \div d)

\* int(a * r) for a >= 0 and a ratio of pct percent
IntRatio(a, pct) == IntDiv(a * pct, 100)

\* int(line_h * 1.05)
Spaced(line_h) == IntDiv(line_h * 105, 100)

----------------------------------------------------------------------------
(* Python string operations on texts *)

RECURSIVE LStrip(_)
LStrip(s) == IF s # <<>> /\ Head(s) = " " THEN LStrip(Tail(s)) ELSE s

RECURSIVE RStrip(_)
RStrip(s) ==
    IF s # <<>> /\ s[Len(s)] = " " THEN RStrip(SubSeq(s, 1, Len(s) - 1)) ELSE s

Strip(s) == LStrip(RStrip(s))

\* line[:k]
Prefix(s, k) == SubSeq(s, 1, Min(Max(k, 0), Len(s)))

\* text.split(): the maximal runs of non-space characters
RECURSIVE SplitWs(_, _, _)
SplitWs(s, cur, acc) ==
    IF s = <<>> THEN (IF cur = <<>> THEN acc ELSE Append(acc, cur))
    ELSE IF Head(s) = " "
         THEN SplitWs(Tail(s), <<>>, IF cur = <<>> THEN acc ELSE Append(acc, cur))
         ELSE SplitWs(Tail(s), Append(cur, Head(s)), acc)

\* " ".join(words)
RECURSIVE JoinSpace(_)
JoinSpace(ws) ==
    IF ws = <<>> THEN <<>>
    ELSE IF Len(ws) = 1 THEN ws[1]
    ELSE ws[1] \o <<" ">> \o JoinSpace(Tail(ws))

\* " ".join(text.split())
NormalizeWs(text) == JoinSpace(SplitWs(text, <<>>, <<>>))

\* s.split(" ") of a whitespace-normalized s: "" gives [""]
SplitSpace(s) == IF s = <<>> THEN << <<>> >> ELSE SplitWs(s, <<>>, <<>>)

----------------------------------------------------------------------------
(* Fonts and draw.textbbox *)

\* _safe_load_font: a TrueType font of the size when one loads (a size <= 0
\* makes ImageFont.truetype raise, which is caught), else load_default()
SafeLoadFont(sz) ==
    IF args.ttf /\ sz > 0 THEN [kind |-> "truetype", size |-> sz]
    ELSE [kind |-> "default", size |-> 0]

\* advance width of one character
CharWidth(c, f) ==
    IF f.kind = "default" THEN 6
    ELSE IF f.kind = "metrics" THEN f.width[c]
    ELSE IF c \in {"W", ellipsis} THEN f.size ELSE f.size \div 2

\* height of the glyph box of one character
CharHeight(c, f) ==
    IF c = " " THEN 0
    ELSE IF f.kind = "default" THEN 11
    ELSE IF c = "W" THEN (3 * f.size) \div 4
    ELSE IF c = "a" THEN f.size \div 2
    ELSE f.size \div 4

\* bbox[2] - bbox[0] of draw.textbbox((0, 0), text, font=f)
RECURSIVE TextWidth(_, _)
TextWidth(text, f) ==
    IF text = <<>> THEN 0 ELSE CharWidth(Head(text), f) + TextWidth(Tail(text), f)

\* bbox[3] - bbox[1] of draw.textbbox((0, 0), text, font=f)
RECURSIVE TextHeight(_, _)
TextHeight(text, f) ==
    IF text = <<>> THEN 0
    ELSE Max(CharHeight(Head(text), f), TextHeight(Tail(text), f))

----------------------------------------------------------------------------
(* _reduce_image_if_needed *)

MAX_DIMENSION == 4000
MAX_IMAGE_PIXELS == 25000000

\* int(v * sqrt(MAX_IMAGE_PIXELS / (iw * ih))) for v = iw or v = ih, o the
\* other side: the largest n with n * n * o <= v * MAX_IMAGE_PIXELS
SqrtScaled(v, o) ==
    CHOOSE n \in 0..v : /\ n * n * o <= v * MAX_IMAGE_PIXELS
                        /\ (n + 1) * (n + 1) * o > v * MAX_IMAGE_PIXELS

\* mutant of ReduceImageIfNeeded: reduces only when both sides are too long
ReduceWhenBothExceed(iw, ih) ==
    IF iw > MAX_DIMENSION /\ ih > MAX_DIMENSION
    THEN <<Max(1, IntDiv(iw * MAX_DIMENSION, Max(iw, ih))),
           Max(1, IntDiv(ih * MAX_DIMENSION, Max(iw, ih)))>>
    ELSE <<iw, ih>>

\* lines 57-74, with scale = min(MAX_DIMENSION / iw, MAX_DIMENSION / ih)
ReduceImageIfNeeded(iw, ih) ==
    IF iw > MAX_DIMENSION \/ ih > MAX_DIMENSION
    THEN <<Max(1, IntDiv(iw * MAX_DIMENSION, Max(iw, ih))),
           Max(1, IntDiv(ih * MAX_DIMENSION, Max(iw, ih)))>>
    ELSE IF iw * ih > MAX_IMAGE_PIXELS
    THEN <<Max(1, SqrtScaled(iw, ih)), Max(1, SqrtScaled(ih, iw))>>
    ELSE <<iw, ih>>

----------------------------------------------------------------------------
(* _wrap_text_for_width *)

\* mutant of WrapLoop: a word that fits exactly is moved to a new line
RECURSIVE WrapLoopStrict(_, _, _, _, _)
WrapLoopStrict(words, current, lines, f, max_width) ==
    IF words = <<>>
    THEN (IF current # <<>> THEN Append(lines, current) ELSE lines)
    ELSE LET wd == Head(words)
             test == Strip(current \o <<" ">> \o wd)
         IN IF TextWidth(test, f) < max_width \/ current = <<>>
            THEN WrapLoopStrict(Tail(words), test, lines, f, max_width)
            ELSE WrapLoopStrict(Tail(words), wd, Append(lines, current), f,
                                max_width)

\* mutant of WrapLoop: the last current line is appended even when empty
RECURSIVE WrapLoopKeepsBlank(_, _, _, _, _)
WrapLoopKeepsBlank(words, current, lines, f, max_width) ==
    IF words = <<>>
    THEN Append(lines, current)
    ELSE LET wd == Head(words)
             test == Strip(current \o <<" ">> \o wd)
         IN IF TextWidth(test, f) <= max_width \/ current = <<>>
            THEN WrapLoopKeepsBlank(Tail(words), test, lines, f, max_width)
            ELSE WrapLoopKeepsBlank(Tail(words), wd, Append(lines, current),
                                    f, max_width)

\* the for loop over words (lines 89-99)
RECURSIVE WrapLoop(_, _, _, _, _)
WrapLoop(words, current, lines, f, max_width) ==
    IF words = <<>>
    THEN (IF current # <<>> THEN Append(lines, current) ELSE lines)
    ELSE LET wd == Head(words)
             test == Strip(current \o <<" ">> \o wd)
         IN IF TextWidth(test, f) <= max_width \/ current = <<>>
            THEN WrapLoop(Tail(words), test, lines, f, max_width)
            ELSE WrapLoop(Tail(words), wd, Append(lines, current), f, max_width)

\* textwrap.wrap(line, width=n) of a line without whitespace: pieces of n
\* characters, the last one shorter (break_long_words)
RECURSIVE TextwrapWrap(_, _)
TextwrapWrap(line, n) ==
    IF line = <<>> THEN <<>>
    ELSE IF Len(line) <= n THEN <<line>>
    ELSE <<SubSeq(line, 1, n)>> \o TextwrapWrap(SubSeq(line, n + 1, Len(line)), n)

\* est_chars of line 111: max(1, int(max_width / avg_char_w))
WrapEstChars(line, f, max_width) ==
    Max(1, IntDiv(max_width * Max(1, Len(line)), TextWidth(line, f)))

\* one line of the second loop (lines 102-113)
WrapFinalLine(line, f, max_width) ==
    IF TextWidth(line, f) <= max_width THEN <<line>>
    ELSE IF TextWidth(line, f) <= 0 THEN <<line>>
    ELSE LET pieces == TextwrapWrap(line, WrapEstChars(line, f, max_width))
         IN IF pieces # <<>> THEN pieces ELSE <<line>>

RECURSIVE WrapFinal(_, _, _)
WrapFinal(lines, f, max_width) ==
    IF lines = <<>> THEN <<>>
    ELSE WrapFinalLine(Head(lines), f, max_width)
         \o WrapFinal(Tail(lines), f, max_width)

WrapTextForWidth(text, f, max_width) ==
    IF text = <<>> THEN <<>>
    ELSE WrapFinal(WrapLoop(SplitSpace(NormalizeWs(text)), <<>>, <<>>, f, max_width),
                   f, max_width)

----------------------------------------------------------------------------
(* _measure_block_height, _truncate_line_to_width *)

RECURSIVE MeasureBlockHeight(_, _)
MeasureBlockHeight(lines, f) ==
    IF lines = <<>> THEN 0
    ELSE Spaced(TextHeight(Head(lines), f)) + MeasureBlockHeight(Tail(lines), f)

\* line[:mid].rstrip() + ellipsis
Candidate(line, mid) == Append(RStrip(Prefix(line, mid)), ellipsis)

\* mutant of TruncSearch: the search stops at the first candidate that fits
RECURSIVE TruncSearchFirstFit(_, _, _, _, _, _, _)
TruncSearchFirstFit(line, f, max_w, low, high, best, last_w) ==
    IF low > high THEN [best |-> best, last_w |-> last_w]
    ELSE LET mid == (low + high) \div 2
             cand == Candidate(line, mid)
             cw == TextWidth(cand, f)
         IN IF cw <= max_w
            THEN [best |-> cand, last_w |-> cw]
            ELSE TruncSearchFirstFit(line, f, max_w, low, mid - 1, best, cw)

\* the while loop of lines 189-197; best = <<>> stands for ""
RECURSIVE TruncSearch(_, _, _, _, _, _, _)
TruncSearch(line, f, max_w, low, high, best, last_w) ==
    IF low > high THEN [best |-> best, last_w |-> last_w]
    ELSE LET mid == (low + high) \div 2
             cand == Candidate(line, mid)
             cw == TextWidth(cand, f)
         IN IF cw <= max_w
            THEN TruncSearch(line, f, max_w, mid + 1, high, cand, cw)
            ELSE TruncSearch(line, f, max_w, low, mid - 1, best, cw)

TruncateLineToWidth(line, f, max_w) ==
    IF line = <<>> THEN line
    ELSE IF TextWidth(line, f) <= max_w THEN line
    ELSE LET r == TruncSearch(line, f, max_w, 0, Len(line), <<>>, TextWidth(line, f))
             est_chars == IF r.last_w > 0
                          THEN Max(1, IntDiv(max_w * Max(1, Len(line)), r.last_w))
                          ELSE Max(1, Len(line) \div 2)
         IN IF r.best # <<>> THEN r.best
            ELSE Append(RStrip(Prefix(line, est_chars)), ellipsis)

\* [_truncate_line_to_width(ln, font, max_w) for ln in lines]
RECURSIVE TruncateAll(_, _, _)
TruncateAll(lines, f, max_w) ==
    IF lines = <<>> THEN <<>>
    ELSE <<TruncateLineToWidth(Head(lines), f, max_w)>>
         \o TruncateAll(Tail(lines), f, max_w)

\* mutant of MergeLastTwo: only the last line is replaced (new_lines[:-1])
MergeKeepsCount(lines, f, max_w) ==
    LET n == Len(lines)
        combined == Strip(lines[n - 1] \o <<" ">> \o lines[n])
    IN Append(SubSeq(lines, 1, n - 1), TruncateLineToWidth(combined, f, max_w))

\* one iteration of the merge loop (lines 209-213)
MergeLastTwo(lines, f, max_w) ==
    LET n == Len(lines)
        combined == Strip(lines[n - 1] \o <<" ">> \o lines[n])
    IN Append(SubSeq(lines, 1, n - 2), TruncateLineToWidth(combined, f, max_w))

----------------------------------------------------------------------------
(* render_meme: arguments and derived quantities *)

\* defaults of render_meme's keyword arguments, as percentages
base_font_pct == 6
max_width_pct == 95

ImageSizes == {<<24, 40>>, <<10, 40>>, <<40, 10>>}
FontSizes == {0, 2, 7}            \* 0 stands for font_size=None
MinFontSizes == {3, 16}
HeightRatios == {35, 90}          \* max_text_height_ratio, in percent
PaddingRatios == {2, 30}          \* padding_ratio, in percent
BottomTexts == {<<>>, <<"W">>, <<"a", " ", "W", " ", "a">>}
\* images around and beyond MAX_DIMENSION, up to extreme aspect ratios
LargeSizes ==
    {<<4000, 4000>>, <<4001, 4000>>, <<4000, 4001>>, <<4001, 4001>>,
     <<8000, 6000>>, <<6000, 8000>>, <<3000, 5000>>, <<5000, 3000>>,
     <<8001, 1>>, <<1, 8001>>}
\* captions that are empty or whitespace only
BlankTexts == {<<>>, <<" ">>, <<" ", " ">>}

ArgSet ==
    [image_none : {FALSE}, size : ImageSizes,
     top_text : Texts(MaxTop), bottom_text : BottomTexts,
     font_size : FontSizes, min_font_size : MinFontSizes,
     max_text_height_pct : HeightRatios, padding_pct : PaddingRatios,
     ttf : BOOLEAN]
    \cup
    [image_none : {TRUE}, size : {<<24, 40>>},
     top_text : {<<"a">>}, bottom_text : {<<>>},
     font_size : {0}, min_font_size : {3},
     max_text_height_pct : {35}, padding_pct : {2}, ttf : {TRUE}]
    \cup
    [image_none : {FALSE}, size : LargeSizes,
     top_text : {<<"W">>}, bottom_text : {<<>>, <<"W">>},
     font_size : {0}, min_font_size : {3},
     max_text_height_pct : {35}, padding_pct : {2}, ttf : BOOLEAN]
    \cup
    [image_none : {FALSE}, size : {<<24, 40>>},
     top_text : BlankTexts \cup {<<"W">>},
     bottom_text : BlankTexts \cup {<<"a">>},
     font_size : {-1}, min_font_size : {0, 3},
     max_text_height_pct : {35}, padding_pct : {2}, ttf : BOOLEAN]

\* line 161
max_text_width == Max(10, IntRatio(w, max_width_pct))
\* line 162
padding == Max(4, IntRatio(Min(w, h), args.padding_pct))
\* max_text_width - 2 * padding, the width every wrap and truncation is given
line_max_w == max_text_width - 2 * padding
\* line 220
allowed_total_h == Max(10, IntRatio(h, args.max_text_height_pct))
\* mutant of initial_font_size: the explicit font_size is ignored
InitialFontSizeNoOverride(ih) ==
    Max(args.min_font_size, IntRatio(ih, base_font_pct))

\* lines 164-167
initial_font_size(ih) ==
    IF args.font_size > 0 THEN args.font_size
    ELSE Max(args.min_font_size, IntRatio(ih, base_font_pct))

NoFont == [kind |-> "none", size |-> 0]

Init ==
    /\ args \in ArgSet
    /\ pc = "start"
    /\ w = 0 /\ h = 0 /\ size = 0 /\ path = 0
    /\ font = NoFont
    /\ top_lines = <<>> /\ bottom_lines = <<>>
    /\ top_h = 0 /\ bottom_h = 0
    /\ slot = "none" /\ new_lines = <<>> /\ allowed_h = 0 /\ shrunk = {}
    /\ used_font_size = 0
    /\ y = 0 /\ idx = 0 /\ y_bottom_start = 0
    /\ drawn = <<>>
    /\ wrapped = <<>>
    /\ GuiInitial

\* mutant of ImageIsNone: a call without any caption is rejected as well
ImageOrCaptionsMissing ==
    args.image_none \/ (Strip(args.top_text) = <<>>
                          /\ Strip(args.bottom_text) = <<>>)

\* image is None (line 152)
ImageIsNone == args.image_none

\* lines 152-167: the None check, convert, _reduce_image_if_needed, the
\* initial font size, and the call of _fit_font_and_lines (line 219)
Start ==
    /\ pc = "start"
    /\ IF ImageIsNone
       THEN /\ pc' = "raised"
            /\ UNCHANGED <<w, h, size>>
       ELSE LET r == ReduceImageIfNeeded(args.size[1], args.size[2])
            IN /\ w' = r[1]
               /\ h' = r[2]
               /\ size' = initial_font_size(r[2])
               /\ pc' = "fit"
    /\ UNCHANGED <<gui_vars, args, path, font, top_lines, bottom_lines, top_h, bottom_h,
                   slot, new_lines, allowed_h, shrunk, used_font_size, y, idx,
                   y_bottom_start, drawn, wrapped>>

\* mutant of FitsBudget: each block is compared with the budget on its own
FitsBudgetPerSlot(th, bh) == th <= allowed_total_h /\ bh <= allowed_total_h

\* total_h <= allowed_total_h (lines 227-228)
FitsBudget(th, bh) == th + bh + 2 * padding <= allowed_total_h

\* mutant of NextSize: the decrement is lost
NextSizeStuck(sz) == Max(args.min_font_size, sz)

\* line 232
NextSize(sz) == Max(args.min_font_size, sz - 2)

\* one iteration of the while loop of _fit_font_and_lines (lines 221-239),
\* up to the first call of _shrink_lines_to_height
FitIteration ==
    /\ pc = "fit"
    /\ size >= args.min_font_size
    /\ LET f == SafeLoadFont(size)
           tl == WrapTextForWidth(args.top_text, f, line_max_w)
           bl == WrapTextForWidth(args.bottom_text, f, line_max_w)
           th == MeasureBlockHeight(tl, f)
           bh == MeasureBlockHeight(bl, f)
           nsize == NextSize(size)
           f2 == SafeLoadFont(nsize)
           tl2 == WrapTextForWidth(args.top_text, f2, line_max_w)
           bl2 == WrapTextForWidth(args.bottom_text, f2, line_max_w)
       IN IF FitsBudget(th, bh) \/ size = args.min_font_size
          THEN /\ path' = 1
               /\ font' = f
               /\ top_lines' = tl /\ bottom_lines' = bl
               /\ top_h' = th /\ bottom_h' = bh
               /\ slot' = "top"
               /\ allowed_h' = Max(0, allowed_total_h - bh - padding)
               /\ pc' = "shrink"
               /\ UNCHANGED size
          ELSE IF nsize = args.min_font_size
          THEN /\ path' = 2
               /\ size' = nsize
               /\ font' = f2
               /\ top_lines' = tl2 /\ bottom_lines' = bl2
               /\ top_h' = th /\ bottom_h' = bh
               /\ slot' = "top"
               /\ allowed_h' = Max(0, allowed_total_h
                                      - MeasureBlockHeight(bl2, f2) - padding)
               /\ pc' = "shrink"
          ELSE /\ size' = nsize
               /\ font' = f
               /\ top_lines' = tl /\ bottom_lines' = bl
               /\ top_h' = th /\ bottom_h' = bh
               /\ UNCHANGED <<path, slot, allowed_h, pc>>
    /\ UNCHANGED <<gui_vars, args, w, h, new_lines, shrunk, used_font_size, y, idx,
                   y_bottom_start, drawn, wrapped>>

\* the code after the while loop (lines 240-244), reached when the loop
\* condition is false
FitBelowMinimum ==
    /\ pc = "fit"
    /\ size < args.min_font_size
    /\ LET f == SafeLoadFont(args.min_font_size)
       IN /\ path' = 3
          /\ font' = f
          /\ top_lines' = WrapTextForWidth(args.top_text, f, line_max_w)
          /\ bottom_lines' = WrapTextForWidth(args.bottom_text, f, line_max_w)
          /\ slot' = "top"
          /\ allowed_h' = IntDiv(h * args.max_text_height_pct, 200)
          /\ pc' = "shrink"
    /\ UNCHANGED <<gui_vars, args, w, h, size, top_h, bottom_h, new_lines, shrunk,
                   used_font_size, y, idx, y_bottom_start, drawn, wrapped>>

----------------------------------------------------------------------------
(* _shrink_lines_to_height, called for the top and then the bottom block *)

SlotLines == IF slot = "top" THEN top_lines ELSE bottom_lines

\* allowed_h of the call for the bottom block, given the new top block
BottomAllowed(new_top) ==
    IF path = 1 THEN Max(0, allowed_total_h - top_h - padding)
    ELSE IF path = 2
    THEN Max(0, allowed_total_h - MeasureBlockHeight(new_top, font) - padding)
    ELSE IntDiv(h * args.max_text_height_pct, 200)

\* the size _fit_font_and_lines returns
ReturnedSize == IF path = 3 THEN args.min_font_size ELSE size

\* _shrink_lines_to_height returns res for the current slot: the next call,
\* or the return of _fit_font_and_lines and lines 247-257
ShrinkReturn(res) ==
    IF slot = "top"
    THEN /\ top_lines' = res
         /\ slot' = "bottom"
         /\ allowed_h' = BottomAllowed(res)
         /\ pc' = "shrink"
         /\ UNCHANGED <<bottom_lines, used_font_size, y, idx>>
    ELSE /\ bottom_lines' = res
         /\ slot' = "none"
         /\ used_font_size' = ReturnedSize
         /\ y' = padding
         /\ idx' = 1
         /\ pc' = "drawTop"
         /\ UNCHANGED <<top_lines, allowed_h>>

\* lines 205-207
ShrinkBegin ==
    /\ pc = "shrink"
    /\ IF MeasureBlockHeight(SlotLines, font) <= allowed_h
       THEN /\ ShrinkReturn(SlotLines)
            /\ UNCHANGED <<new_lines, shrunk>>
       ELSE /\ new_lines' = TruncateAll(SlotLines, font, line_max_w)
            /\ shrunk' = shrunk \cup {slot}
            /\ pc' = "merge"
            /\ UNCHANGED <<top_lines, bottom_lines, slot, allowed_h,
                           used_font_size, y, idx>>
    /\ UNCHANGED <<gui_vars, args, w, h, size, path, font, top_h, bottom_h,
                   y_bottom_start, drawn, wrapped>>

\* the loop condition of line 208
MergeNeeded ==
    MeasureBlockHeight(new_lines, font) > allowed_h /\ Len(new_lines) > 1

\* one iteration of the while loop (lines 208-213)
ShrinkMerge ==
    /\ pc = "merge"
    /\ MergeNeeded
    /\ new_lines' = MergeLastTwo(new_lines, font, line_max_w)
    /\ UNCHANGED <<gui_vars, args, pc, w, h, size, path, font, top_lines, bottom_lines,
                   top_h, bottom_h, slot, allowed_h, shrunk, used_font_size,
                   y, idx, y_bottom_start, drawn, wrapped>>

\* lines 214-216
ShrinkResult(lines) ==
    IF MeasureBlockHeight(lines, font) > allowed_h /\ Len(lines) = 1
    THEN <<TruncateLineToWidth(lines[1], font, line_max_w)>>
    ELSE lines

ShrinkEnd ==
    /\ pc = "merge"
    /\ ~MergeNeeded
    /\ ShrinkReturn(ShrinkResult(new_lines))
    /\ new_lines' = <<>>
    /\ UNCHANGED <<gui_vars, args, w, h, size, path, font, top_h, bottom_h, shrunk,
                   y_bottom_start, drawn, wrapped>>

----------------------------------------------------------------------------
(* the draw loops *)

\* the call of _draw_text_with_stroke for line ln at the current y
DrawCall(s, i, ln) ==
    [slot |-> s, i |-> i,
     x |-> Max(0, (w - TextWidth(ln, font)) \div 2), y |-> y,
     line_w |-> TextWidth(ln, font), line_h |-> TextHeight(ln, font)]

\* mutant of PastBottom: the test forgets the padding
PastBottomNoPadding(ln) == y + TextHeight(ln, font) > h

\* the test of lines 263 and 278
PastBottom(ln) == y + TextHeight(ln, font) > h - padding

\* one iteration of the top loop (lines 258-266), or its end
DrawTop ==
    /\ pc = "drawTop"
    /\ IF idx <= Len(top_lines) /\ ~PastBottom(top_lines[idx])
       THEN /\ drawn' = Append(drawn, DrawCall("top", idx, top_lines[idx]))
            /\ y' = y + Spaced(TextHeight(top_lines[idx], font))
            /\ idx' = idx + 1
            /\ UNCHANGED pc
       ELSE /\ pc' = "bottomStart"
            /\ UNCHANGED <<drawn, y, idx>>
    /\ UNCHANGED <<gui_vars, args, w, h, size, path, font, top_lines, bottom_lines,
                   top_h, bottom_h, slot, new_lines, allowed_h, shrunk,
                   used_font_size, y_bottom_start, wrapped>>

\* bottom_block_h of line 254
bottom_block_h == MeasureBlockHeight(bottom_lines, font)
top_block_h == MeasureBlockHeight(top_lines, font)

\* mutant of BottomStartY: no correction against overlap
BottomStartYPlain == h - MeasureBlockHeight(bottom_lines, font) - padding

\* mutant of BottomStartY: the correction leaves no padding under the top
\* block
BottomStartYNoGap ==
    IF h - bottom_block_h - padding < y + padding
    THEN Max(y, padding)
    ELSE h - bottom_block_h - padding

\* lines 269-272
BottomStartY ==
    IF h - bottom_block_h - padding < y + padding
    THEN Max(y + padding, padding)
    ELSE h - bottom_block_h - padding

BottomStart ==
    /\ pc = "bottomStart"
    /\ y_bottom_start' = BottomStartY
    /\ y' = BottomStartY
    /\ idx' = 1
    /\ pc' = "drawBottom"
    /\ UNCHANGED <<gui_vars, args, w, h, size, path, font, top_lines, bottom_lines,
                   top_h, bottom_h, slot, new_lines, allowed_h, shrunk,
                   used_font_size, drawn, wrapped>>

\* one iteration of the bottom loop (lines 273-281), or its end and the
\* return of line 283
DrawBottom ==
    /\ pc = "drawBottom"
    /\ IF idx <= Len(bottom_lines) /\ ~PastBottom(bottom_lines[idx])
       THEN /\ drawn' = Append(drawn, DrawCall("bottom", idx, bottom_lines[idx]))
            /\ y' = y + Spaced(TextHeight(bottom_lines[idx], font))
            /\ idx' = idx + 1
            /\ UNCHANGED pc
       ELSE /\ pc' = "done"
            /\ UNCHANGED <<drawn, y, idx>>
    /\ UNCHANGED <<gui_vars, args, w, h, size, path, font, top_lines, bottom_lines,
                   top_h, bottom_h, slot, new_lines, allowed_h, shrunk,
                   used_font_size, y_bottom_start, wrapped>>

Next ==
    \/ Start
    \/ FitIteration
    \/ FitBelowMinimum
    \/ ShrinkBegin
    \/ ShrinkMerge
    \/ ShrinkEnd
    \/ DrawTop
    \/ BottomStart
    \/ DrawBottom

Spec == Init /\ [][Next]_vars

----------------------------------------------------------------------------
(* Properties of render_meme *)

Fitted == pc \in {"drawTop", "bottomStart", "drawBottom", "done"}

DrawnOf(s) == SelectSeq(drawn, LAMBDA d : d.slot = s)

\* C1: the block height of the final lines of the top caption, and of the
\* bottom caption, is at most H * max_text_height_ratio + 8.
C1_BlockHeightBounded ==
    Fitted =>
        /\ 100 * top_block_h <= h * args.max_text_height_pct + 800
        /\ 100 * bottom_block_h <= h * args.max_text_height_pct + 800

----------------------------------------------------------------------------
\* y after the last drawn line of slot s, start being the y of its first line
RECURSIVE EndY(_, _)
EndY(calls, start) ==
    IF calls = <<>> THEN start
    ELSE EndY(Tail(calls), Head(calls).y + Spaced(Head(calls).line_h))

LoopOver(s) ==
    IF s = "top" THEN pc \in {"bottomStart", "drawBottom", "done"}
    ELSE pc = "done"

\* the calls of slot s are its lines 1..n in order, and once its loop is
\* over a line n + 1 that exists is the one that failed the test
StoppedAtFirstFailure(s, lines, start) ==
    LET calls == DrawnOf(s)
        n == Len(calls)
    IN /\ n <= Len(lines)
       /\ \A k \in 1..n : calls[k].i = k
       /\ LoopOver(s) /\ n < Len(lines) =>
              EndY(calls, start) + TextHeight(lines[n + 1], font) > h - padding

\* C2: every drawn line has y >= padding and y + line_h <= H - padding; as
\* soon as a line of a block fails the test, it and all later lines of the
\* block are skipped, and nothing is raised.
C2_DrawnInsidePadding ==
    /\ pc = "raised" => args.image_none
    /\ \A k \in 1..Len(drawn) :
           /\ drawn[k].y >= padding
           /\ drawn[k].y + drawn[k].line_h <= h - padding
    /\ StoppedAtFirstFailure("top", top_lines, padding)
    /\ StoppedAtFirstFailure("bottom", bottom_lines, y_bottom_start)

\* a top block of which a first line was drawn and a later one skipped
C2_Witness ==
    /\ pc = "done"
    /\ Len(DrawnOf("top")) >= 1
    /\ Len(DrawnOf("top")) < Len(top_lines)

\* C3: the layout box of every drawn line lies inside the canvas, x being
\* the centred, clamped position.
C3_BoxInsideCanvas ==
    \A k \in 1..Len(drawn) :
        /\ drawn[k].x = Max(0, (w - drawn[k].line_w) \div 2)
        /\ 0 <= drawn[k].x /\ drawn[k].x + drawn[k].line_w <= w
        /\ 0 <= drawn[k].y /\ drawn[k].y + drawn[k].line_h <= h

----------------------------------------------------------------------------
\* the start size of the search
StartSize == initial_font_size(h)

\* the sizes of the descending scan: start, start - 2, ... above
\* min_font_size, then min_font_size itself
ScanSizes ==
    {s \in (args.min_font_size + 1)..StartSize : (StartSize - s) % 2 = 0}
    \cup {args.min_font_size}

BlockHeightAt(text, s) ==
    MeasureBlockHeight(WrapTextForWidth(text, SafeLoadFont(s), line_max_w),
                       SafeLoadFont(s))

\* each caption fits its own budget H * max_text_height_ratio at size s
FitsPerSlotAt(s) ==
    /\ 100 * BlockHeightAt(args.top_text, s) <= h * args.max_text_height_pct
    /\ 100 * BlockHeightAt(args.bottom_text, s) <= h * args.max_text_height_pct

\* the two blocks and twice the padding fit the one shared budget at size s
FitsTotalAt(s) ==
    BlockHeightAt(args.top_text, s) + BlockHeightAt(args.bottom_text, s)
        + 2 * padding <= Max(10, IntRatio(h, args.max_text_height_pct))

LargestOr(S, default) ==
    IF S = {} THEN default ELSE CHOOSE s \in S : \A t \in S : t <= s

\* C4 as stated: the search returns the largest scanned size at which each
\* caption fits its own budget, and min_font_size when none does.
C4_LargestPerSlotFit ==
    Fitted => used_font_size =
        LargestOr({s \in ScanSizes : FitsPerSlotAt(s)}, args.min_font_size)

\* C4 amended: the search returns the largest scanned size at which
\* top_h + bottom_h + 2 * padding <= max(10, int(H * max_text_height_ratio)),
\* and min_font_size when no scanned size fits.
C4_LargestTotalFit ==
    Fitted => used_font_size =
        LargestOr({s \in ScanSizes : FitsTotalAt(s)}, args.min_font_size)

\* the scan went down from the start and stopped above min_font_size, at
\* a start where each caption alone was within its own budget
C4_Witness ==
    /\ pc = "done"
    /\ args.min_font_size < used_font_size
    /\ used_font_size < StartSize
    /\ FitsPerSlotAt(StartSize)

----------------------------------------------------------------------------
\* C5: from one iteration of the search to the next the candidate size
\* strictly decreases and stays above min_font_size (so the loop ends after
\* at most start - min_font_size iterations); every iteration that does not
\* continue the loop returns; and the size returned lies in
\* min_font_size .. max(start, min_font_size), with a font and two line
\* sequences, nothing being raised.
C5_SearchTerminates ==
    /\ [][pc = "fit" =>
              \/ /\ pc' = "fit"
                 /\ size' < size
                 /\ size' > args.min_font_size
              \/ /\ pc' = "shrink"
                 /\ path' \in {1, 2, 3}
                 /\ font'.kind \in {"truetype", "default"}]_vars
    /\ [](Fitted => /\ args.min_font_size <= used_font_size
                    /\ used_font_size <= Max(StartSize, args.min_font_size))

\* an explicit font_size below min_font_size: the search returned
\* min_font_size
C5_Witness ==
    /\ pc = "done"
    /\ args.font_size > 0
    /\ args.font_size < args.min_font_size
    /\ used_font_size = args.min_font_size

----------------------------------------------------------------------------
\* C6 as stated: with an explicit positive font_size the size used equals
\* font_size.
C6_ExplicitSizeUsed ==
    Fitted /\ args.font_size > 0 => used_font_size = args.font_size

\* C6 amended: an explicit positive font_size is the start of the search,
\* not its result: the size used equals font_size exactly when font_size >=
\* min_font_size and the blocks fit the shared budget at font_size (or
\* font_size = min_font_size); otherwise it is a smaller scanned size, or
\* min_font_size when font_size < min_font_size.
C6_ExplicitSizeStartsSearch ==
    Fitted /\ args.font_size > 0 =>
        /\ used_font_size = args.font_size <=>
               /\ args.font_size >= args.min_font_size
               /\ FitsTotalAt(args.font_size)
                      \/ args.font_size = args.min_font_size
        /\ args.font_size < args.min_font_size =>
               used_font_size = args.min_font_size
        /\ args.font_size >= args.min_font_size =>
               /\ used_font_size <= args.font_size
               /\ used_font_size >= args.min_font_size
               /\ \/ used_font_size = args.min_font_size
                  \/ (args.font_size - used_font_size) % 2 = 0

\* an explicit font_size that fits is the size used
C6_Witness ==
    /\ pc = "done"
    /\ args.font_size > args.min_font_size
    /\ used_font_size = args.font_size

----------------------------------------------------------------------------
\* C8: each merge iteration reduces the line count by exactly one (so the
\* merge loop ends after at most len - 1 iterations), and on return either
\* the block height is <= the allowed height or exactly one line remains;
\* an empty sequence is returned unchanged.
C8_ShrinkTerminates ==
    [][/\ pc = "merge" /\ pc' = "merge" =>
              Len(new_lines') = Len(new_lines) - 1
       /\ pc \in {"shrink", "merge"} /\ slot' # slot =>
              LET res == IF slot = "top" THEN top_lines' ELSE bottom_lines'
              IN /\ \/ MeasureBlockHeight(res, font) <= allowed_h
                    \/ Len(res) = 1
                 /\ SlotLines = <<>> => res = <<>>]_vars

\* a merge has been made and the loop is still running on two or more lines
C8_Witness ==
    /\ pc = "merge"
    /\ Len(new_lines) >= 2
    /\ Len(new_lines) < Len(SlotLines)
    /\ MergeNeeded

\* C9: after overflow resolution no line of the final block is wider than
\* max_text_width - 2 * padding.
C9_ShrunkLinesWithinWidth ==
    Fitted =>
        /\ "top" \in shrunk =>
               \A i \in 1..Len(top_lines) : TextWidth(top_lines[i], font) <= line_max_w
        /\ "bottom" \in shrunk =>
               \A i \in 1..Len(bottom_lines) :
                   TextWidth(bottom_lines[i], font) <= line_max_w

----------------------------------------------------------------------------
\* a line after the first of its block is placed int(line_h * 1.05) below
\* the line before it
FlowsDownward ==
    \A k \in 1..Len(drawn) :
        drawn[k].i > 1 =>
            /\ drawn[k - 1].slot = drawn[k].slot
            /\ drawn[k].y = drawn[k - 1].y + Spaced(drawn[k - 1].line_h)

FirstLineAt(s, pos) ==
    \A k \in 1..Len(drawn) :
        drawn[k].slot = s /\ drawn[k].i = 1 => drawn[k].y = pos

\* C10 as stated: the first top line is placed at y = padding, the first
\* bottom line at y = H - bottom_block_height - padding, every following
\* line int(line_h * 1.05) below the previous one.
C10_PlacementAsStated ==
    /\ FirstLineAt("top", padding)
    /\ FirstLineAt("bottom", h - bottom_block_h - padding)
    /\ FlowsDownward

\* the y reached after the last drawn top line
TopEndY == EndY(DrawnOf("top"), padding)

\* C10 amended: the first bottom line is placed at
\* H - bottom_block_height - padding unless that is less than
\* (y after the last drawn top line) + padding, in which case it is placed
\* at max(that y + padding, padding); the rest as stated.
C10_PlacementAvoidsOverlap ==
    /\ FirstLineAt("top", padding)
    /\ FirstLineAt("bottom",
                   IF h - bottom_block_h - padding < TopEndY + padding
                   THEN Max(TopEndY + padding, padding)
                   ELSE h - bottom_block_h - padding)
    /\ FlowsDownward

\* a first bottom line drawn below the position the statement gives, under
\* a drawn top block
C10_Witness ==
    /\ Len(DrawnOf("top")) >= 1
    /\ \E k \in 1..Len(drawn) :
           /\ drawn[k].slot = "bottom"
           /\ drawn[k].i = 1
           /\ drawn[k].y > h - bottom_block_h - padding

----------------------------------------------------------------------------
(* Image normalization *)

InputW == args.size[1]
InputH == args.size[2]
Normalized == pc \notin {"start", "raised"}

\* C11: whenever render_meme has normalized a W x H image, the working
\* size (w, h) satisfies 1 <= w <= min(W, 4000), 1 <= h <= min(H, 4000) and
\* w * h <= 5000 * 5000, so no side is enlarged; it equals (W, H) when both
\* sides are at most 4000 and W * H is at most 25,000,000; and the size is
\* never changed again, so the returned image has exactly that size.
C11_NormalizedSizeBounded ==
    /\ [](Normalized =>
            /\ 1 <= w /\ w <= Min(InputW, MAX_DIMENSION)
            /\ 1 <= h /\ h <= Min(InputH, MAX_DIMENSION)
            /\ w * h <= MAX_IMAGE_PIXELS
            /\ (InputW <= MAX_DIMENSION /\ InputH <= MAX_DIMENSION
                /\ InputW * InputH <= MAX_IMAGE_PIXELS
                => w = InputW /\ h = InputH))
    /\ [][Normalized => w' = w /\ h' = h]_vars

\* a render that finished on an image whose two sides were reduced, the
\* longer one to MAX_DIMENSION
C11_Witness ==
    /\ pc = "done"
    /\ InputW > MAX_DIMENSION /\ w = MAX_DIMENSION
    /\ 1 < h /\ h < InputH

----------------------------------------------------------------------------
(* Error outcome *)

Raised == pc = "raised"
Returned == pc = "done"

\* nothing of the call's local state has been assigned
Untouched ==
    /\ w = 0 /\ h = 0 /\ size = 0 /\ font = NoFont
    /\ top_lines = <<>> /\ bottom_lines = <<>> /\ new_lines = <<>>
    /\ drawn = <<>>

\* position of the call in render_meme, counted down to the return
PhaseRank ==
    CASE pc = "start" -> 8
      [] pc = "fit" -> 7
      [] pc = "shrink" /\ slot = "top" -> 6
      [] pc = "merge" /\ slot = "top" -> 5
      [] pc = "shrink" -> 4
      [] pc = "merge" -> 3
      [] pc = "drawTop" -> 2
      [] pc = "bottomStart" -> 1
      [] pc = "drawBottom" -> 0
      [] OTHER -> -1

\* what is left of the loop the call is in
LoopRank ==
    CASE pc = "fit" -> size
      [] pc = "merge" -> Len(new_lines)
      [] pc = "drawTop" -> Len(top_lines) - idx
      [] pc = "drawBottom" -> Len(bottom_lines) - idx
      [] OTHER -> 0

Advances ==
    \/ PhaseRank' < PhaseRank
    \/ PhaseRank' = PhaseRank /\ LoopRank' < LoopRank

\* C12: render_meme raises exactly when image is None, and then straight
\* from its entry, before any normalization, measurement or drawing; with an
\* image it never raises and every step brings the call nearer to its
\* return, also with blank captions, a font size of zero or below, and no
\* TrueType font that loads.
C12_RaisesOnlyOnNoneImage ==
    /\ [](/\ args.image_none => pc \in {"start", "raised"} /\ Untouched
          /\ ~args.image_none => ~Raised
          /\ Returned => ~args.image_none)
    /\ [][/\ Raised' => pc = "start" /\ args.image_none
          /\ ~args.image_none => Advances]_vars

\* a call returned with two blank captions, a negative font_size and the
\* default bitmap font
C12_Witness ==
    /\ Returned
    /\ Strip(args.top_text) = <<>> /\ Strip(args.bottom_text) = <<>>
    /\ args.font_size < 0
    /\ font.kind = "default"

----------------------------------------------------------------------------
(* Blank captions *)

Blank(text) == Strip(text) = <<>>

\* a blank caption wraps to no line, of block height 0, at every candidate
\* size, its slot holds no line and got no draw call
InactiveSlot(text, lines, block_h, s) ==
    /\ lines = <<>>
    /\ block_h = 0
    /\ DrawnOf(s) = <<>>
    /\ Normalized =>
         \A sz \in ScanSizes :
            /\ WrapTextForWidth(text, SafeLoadFont(sz), line_max_w) = <<>>
            /\ BlockHeightAt(text, sz) = 0

\* C13: a caption that is empty or whitespace only has zero wrapped lines
\* and zero block height at every candidate font size and receives no draw
\* call; with two such captions render_meme issues no draw call at all.
C13_BlankCaptionInactive ==
    /\ Blank(args.top_text) =>
         InactiveSlot(args.top_text, top_lines, top_h, "top")
    /\ Blank(args.bottom_text) =>
         InactiveSlot(args.bottom_text, bottom_lines, bottom_h, "bottom")
    /\ Blank(args.top_text) /\ Blank(args.bottom_text) => drawn = <<>>

\* a render returned with a top caption of spaces only and a drawn bottom
\* caption
C13_Witness ==
    /\ Returned
    /\ args.top_text # <<>> /\ Blank(args.top_text)
    /\ DrawnOf("bottom") # <<>>

----------------------------------------------------------------------------
(* No overlap of the two blocks *)

BothCaptions == ~Blank(args.top_text) /\ ~Blank(args.bottom_text)

BottomPlaced == pc \in {"drawBottom", "done"}

\* C15: with two non-blank captions, the y of the first bottom line is at
\* least the y reached after the last drawn top line plus padding, and
\* every drawn bottom line starts at or below the lower edge y + line_h of
\* every drawn top line.
C15_BottomBelowTop ==
    BothCaptions =>
        /\ BottomPlaced => y_bottom_start >= TopEndY + padding
        /\ FirstLineAt("bottom", y_bottom_start)
        /\ \A j \in 1..Len(drawn), k \in 1..Len(drawn) :
               drawn[j].slot = "top" /\ drawn[k].slot = "bottom"
               => drawn[k].y >= drawn[j].y + drawn[j].line_h + padding

\* both blocks were drawn, and the bottom block at its own height would
\* have started inside the top block
C15_Witness ==
    /\ Returned
    /\ BothCaptions
    /\ DrawnOf("top") # <<>> /\ DrawnOf("bottom") # <<>>
    /\ h - bottom_block_h - padding < TopEndY
    /\ y_bottom_start = TopEndY + padding

----------------------------------------------------------------------------
(* _wrap_text_for_width on its own: one call for a text, a font and a     *)
(* maximum width                                                          *)

WrapSizes == {1, 3, 4}
WrapWidths == {-2, 2, 5, 9}

WrapArgSet ==
    [text : Texts(MaxWrapLen), size : WrapSizes, max_width : WrapWidths,
     ttf : BOOLEAN]

WrapInit ==
    /\ args \in WrapArgSet
    /\ pc = "wrapStart"
    /\ w = 0 /\ h = 0 /\ size = 0 /\ path = 0
    /\ font = NoFont
    /\ top_lines = <<>> /\ bottom_lines = <<>>
    /\ top_h = 0 /\ bottom_h = 0
    /\ slot = "none" /\ new_lines = <<>> /\ allowed_h = 0 /\ shrunk = {}
    /\ used_font_size = 0
    /\ y = 0 /\ idx = 0 /\ y_bottom_start = 0
    /\ drawn = <<>>
    /\ wrapped = <<>>
    /\ GuiInitial

WrapCall ==
    /\ pc = "wrapStart"
    /\ font' = SafeLoadFont(args.size)
    /\ wrapped' = WrapTextForWidth(args.text, SafeLoadFont(args.size),
                                   args.max_width)
    /\ pc' = "wrapDone"
    /\ UNCHANGED <<gui_vars, args, w, h, size, path, top_lines, bottom_lines, top_h,
                   bottom_h, slot, new_lines, allowed_h, shrunk,
                   used_font_size, y, idx, y_bottom_start, drawn>>

WrapNext == WrapCall

WrapSpec == WrapInit /\ [][WrapNext]_vars

Words(text) == SplitWs(text, <<>>, <<>>)

RECURSIVE Flatten(_)
Flatten(lines) ==
    IF lines = <<>> THEN <<>> ELSE Head(lines) \o Flatten(Tail(lines))

RECURSIVE WordsOfLines(_)
WordsOfLines(lines) ==
    IF lines = <<>> THEN <<>>
    ELSE Words(Head(lines)) \o WordsOfLines(Tail(lines))

NoSpaces(s) == SelectSeq(s, LAMBDA c : c # " ")

\* every line is one or more whole words of the text joined by single
\* spaces, and the lines joined by single spaces are the normalized text
WholeWordLines(lines, text) ==
    /\ \A i \in 1..Len(lines) :
           lines[i] # <<>> /\ lines[i] = JoinSpace(Words(lines[i]))
    /\ WordsOfLines(lines) = Words(text)
    /\ JoinSpace(lines) = NormalizeWs(text)

\* a line break stands only where the next word would not have fitted
MovedOnlyOnOverflow(lines, f, mw) ==
    \A i \in 1..(Len(lines) - 1) :
        TextWidth(lines[i] \o <<" ">> \o Words(lines[i + 1])[1], f) > mw

\* a word of several characters that is wider than mw (and not of zero
\* width)
CutWord(wd, f, mw) ==
    Len(wd) > 1 /\ TextWidth(wd, f) > mw /\ TextWidth(wd, f) > 0

PiecesAt(lines, i, k, wd, n) ==
    /\ i + k - 1 <= Len(lines)
    /\ Flatten(SubSeq(lines, i, i + k - 1)) = wd
    /\ \A j \in i..(i + k - 2) : Len(lines[j]) = n
    /\ Len(lines[i + k - 1]) \in 1..n

----------------------------------------------------------------------------
(* _truncate_line_to_width on its own: one call for a line, a font given  *)
(* by the advance width of each character, and a maximum width            *)

Glyphs == Chars \cup {ellipsis}
GlyphWidths == {0, 1, 3}
EllipsisWidths == {0, 2}
TruncWidths == {-1, 0, 2, 4, 7}

RECURSIVE LinesOfLen(_)
LinesOfLen(n) ==
    IF n = 0 THEN {<<>>}
    ELSE {Append(t, c) : t \in LinesOfLen(n - 1), c \in Glyphs}

\* the fonts: every assignment of a width to the characters
Metrics ==
    {m \in [Glyphs -> GlyphWidths \cup EllipsisWidths] :
        /\ \A c \in Chars : m[c] \in GlyphWidths
        /\ m[ellipsis] \in EllipsisWidths}

TruncArgSet ==
    [line : UNION {LinesOfLen(k) : k \in 0..MaxTruncLen},
     metrics : Metrics, max_w : TruncWidths]

TruncInit ==
    /\ args \in TruncArgSet
    /\ pc = "truncStart"
    /\ w = 0 /\ h = 0 /\ size = 0 /\ path = 0
    /\ font = NoFont
    /\ top_lines = <<>> /\ bottom_lines = <<>>
    /\ top_h = 0 /\ bottom_h = 0
    /\ slot = "none" /\ new_lines = <<>> /\ allowed_h = 0 /\ shrunk = {}
    /\ used_font_size = 0
    /\ y = 0 /\ idx = 0 /\ y_bottom_start = 0
    /\ drawn = <<>>
    /\ wrapped = <<>>
    /\ GuiInitial

MetricsFont(m) == [kind |-> "metrics", size |-> 0, width |-> m]

\* the call; its result is kept as the one line of new_lines
TruncCall ==
    /\ pc = "truncStart"
    /\ font' = MetricsFont(args.metrics)
    /\ new_lines' = <<TruncateLineToWidth(args.line, MetricsFont(args.metrics),
                                          args.max_w)>>
    /\ pc' = "truncDone"
    /\ UNCHANGED <<gui_vars, args, w, h, size, path, top_lines, bottom_lines, top_h,
                   bottom_h, slot, allowed_h, shrunk, used_font_size, y, idx,
                   y_bottom_start, drawn, wrapped>>

TruncNext == TruncCall

TruncSpec == TruncInit /\ [][TruncNext]_vars

CandidateFits(k) == TextWidth(Candidate(args.line, k), font) <= args.max_w

\* the prefix lengths whose candidate fits, found by trying every length
FittingLengths == {k \in 0..Len(args.line) : CandidateFits(k)}

LargestOf(S) == CHOOSE k \in S : \A j \in S : j <= k

\* C14: _truncate_line_to_width returns a line that fits max_w unchanged;
\* for a line that does not fit, with any non-negative width per character,
\* when some candidate line[:k].rstrip() + ellipsis fits, the result is the
\* candidate of the largest such k in 0..len(line), as an exhaustive scan
\* over the prefix lengths finds it.
C14_TruncationIsLongestFit ==
    pc = "truncDone" =>
        /\ TextWidth(args.line, font) <= args.max_w => new_lines[1] = args.line
        /\ TextWidth(args.line, font) > args.max_w /\ FittingLengths # {}
               => new_lines[1] = Candidate(args.line, LargestOf(FittingLengths))

\* a line of characters of different widths was cut to a proper prefix, with
\* shorter and longer prefixes on either side of the cut
C14_Witness ==
    /\ pc = "truncDone"
    /\ TextWidth(args.line, font) > args.max_w
    /\ FittingLengths # {}
    /\ 1 < LargestOf(FittingLengths)
    /\ LargestOf(FittingLengths) + 1 < Len(args.line)
    /\ args.metrics["a"] # args.metrics["W"]
    /\ new_lines[1] = Candidate(args.line, LargestOf(FittingLengths))

----------------------------------------------------------------------------
(* MemeApp: the two buttons, their handlers on the UI thread, the worker   *)
(* threads and the callbacks the workers register with self.after(0, ...)  *)

ThreadIds == 1..MaxThreads

\* no call of render_meme is followed step by step here: the worker's call
\* either returns or raises
NoCall == [call |-> "none"]

GuiInit ==
    /\ args = NoCall
    /\ pc = "none"
    /\ w = 0 /\ h = 0 /\ size = 0 /\ path = 0
    /\ font = NoFont
    /\ top_lines = <<>> /\ bottom_lines = <<>>
    /\ top_h = 0 /\ bottom_h = 0
    /\ slot = "none" /\ new_lines = <<>> /\ allowed_h = 0 /\ shrunk = {}
    /\ used_font_size = 0
    /\ y = 0 /\ idx = 0 /\ y_bottom_start = 0
    /\ drawn = <<>>
    /\ wrapped = <<>>
    /\ GuiInitial

\* a callback registered by the worker tid
Callback(fn, tid) == [fn |-> fn, tid |-> tid]

\* the workers that are alive or have a callback waiting
UsedIds ==
    {t.tid : t \in threads}
    \cup {after_queue[k].tid : k \in 1..Len(after_queue)}

\* _set_buttons_state (lines 251-255): one state for the three widgets
SetButtonsState(enabled) == IF enabled THEN "normal" ELSE "disabled"

\* a button in state "disabled" does not call its command; the main loop
\* runs one handler or callback at a time
Clickable ==
    /\ ui = "mainloop"
    /\ buttons_state = "normal"
    /\ UsedIds # ThreadIds

\* _on_test_api up to the start of the thread (lines 112-114)
OnTestApi ==
    /\ Clickable
    /\ lbl_status' = "comprobando"
    /\ buttons_state' = SetButtonsState(FALSE)
    /\ ui' = "on_test_api"
    /\ UNCHANGED <<render_vars, canvas_image, threads, after_queue>>

\* _on_generate_meme up to the start of the thread (lines 158-160)
OnGenerateMeme ==
    /\ Clickable
    /\ lbl_status' = "generando"
    /\ buttons_state' = SetButtonsState(FALSE)
    /\ ui' = "on_generate_meme"
    /\ UNCHANGED <<render_vars, canvas_image, threads, after_queue>>

\* thread.start() (lines 115 and 161) and the return to the main loop
ThreadStart ==
    /\ ui \in {"on_test_api", "on_generate_meme"}
    /\ LET id == CHOOSE i \in ThreadIds \ UsedIds :
                     \A j \in ThreadIds \ UsedIds : i <= j
       IN threads' = threads \cup
              {[tid |-> id,
                target |-> IF ui = "on_test_api" THEN "_test_api_thread"
                           ELSE "_generate_meme_thread",
                at |-> "get_url", e |-> FALSE]}
    /\ ui' = "mainloop"
    /\ UNCHANGED <<render_vars, buttons_state, lbl_status, canvas_image,
                   after_queue>>

\* the worker t goes on to the position at2
Moves(t, at2) == threads' = (threads \ {t}) \cup {[t EXCEPT !.at = at2]}

\* an exception is raised in the try block and bound to e (lines 146, 234)
Raises(t) ==
    threads' = (threads \ {t}) \cup {[t EXCEPT !.at = "except", !.e = TRUE]}

\* self.after(0, ...) from the worker t
After(fn, t) == after_queue' = Append(after_queue, Callback(fn, t.tid))

\* get_random_meme_url and "if not meme_url: raise" (lines 119-121, 165-167)
GetUrl(t) ==
    /\ t.at = "get_url"
    /\ Moves(t, "download") \/ Raises(t)
    /\ UNCHANGED <<render_vars, buttons_state, lbl_status, canvas_image, ui,
                   after_queue>>

\* requests.get, raise_for_status, the size limit, Image.open (lines
\* 124-141 and 170-178)
Download(t) ==
    /\ t.at = "download"
    /\ \/ Moves(t, IF t.target = "_test_api_thread" THEN "after_show"
                   ELSE "texts")
       \/ Raises(t)
    /\ UNCHANGED <<render_vars, buttons_state, lbl_status, canvas_image, ui,
                   after_queue>>

\* the choice of the captions (lines 181-210): a status with the position
\* is registered for a random phrase and for a single custom text
PrepareTexts(t) ==
    /\ t.at = "texts"
    /\ \/ Moves(t, "render") /\ After("status_position", t)
       \/ Moves(t, "render") /\ UNCHANGED after_queue
       \/ Raises(t) /\ UNCHANGED after_queue
    /\ UNCHANGED <<render_vars, buttons_state, lbl_status, canvas_image, ui>>

\* render_meme, thumbnail and CTkImage (lines 213-229)
Render(t) ==
    /\ t.at = "render"
    /\ Moves(t, "after_show") \/ Raises(t)
    /\ UNCHANGED <<render_vars, buttons_state, lbl_status, canvas_image, ui,
                   after_queue>>

\* lines 144 and 231
AfterShow(t) ==
    /\ t.at = "after_show"
    /\ After("show_image", t)
    /\ Moves(t, "after_status")
    /\ UNCHANGED <<render_vars, buttons_state, lbl_status, canvas_image, ui>>

\* lines 145 and 232
AfterStatus(t) ==
    /\ t.at = "after_status"
    /\ After("status_ok", t)
    /\ Moves(t, "finally")
    /\ UNCHANGED <<render_vars, buttons_state, lbl_status, canvas_image, ui>>

\* the except block (lines 147-151, 235-239): the lambda it registers reads
\* e when it is called
Except(t) ==
    /\ t.at = "except"
    /\ After("status_error", t)
    /\ Moves(t, "except_end")
    /\ UNCHANGED <<render_vars, buttons_state, lbl_status, canvas_image, ui>>

\* the end of the except block, where Python unbinds e
ExceptEnd(t) ==
    /\ t.at = "except_end"
    /\ threads' = (threads \ {t}) \cup {[t EXCEPT !.at = "finally", !.e = FALSE]}
    /\ UNCHANGED <<render_vars, buttons_state, lbl_status, canvas_image, ui,
                   after_queue>>

\* mutant of FinallyCallbacks: the finally block registers nothing
FinallyRegistersNothing(t) == after_queue

\* the callbacks after the finally block (lines 153-154, 244-245)
FinallyCallbacks(t) == Append(after_queue, Callback("set_buttons_state", t.tid))

\* the finally block and the end of the thread
Finally(t) ==
    /\ t.at = "finally"
    /\ after_queue' = FinallyCallbacks(t)
    /\ threads' = threads \ {t}
    /\ UNCHANGED <<render_vars, buttons_state, lbl_status, canvas_image, ui>>

\* the main loop calls the oldest callback.  The status_error lambda reads
\* e of its worker: after the except block has ended the read raises
\* NameError, which Tk reports, and the label is left as it was.
RunCallback ==
    /\ ui = "mainloop"
    /\ after_queue # <<>>
    /\ LET cb == Head(after_queue)
       IN /\ after_queue' = Tail(after_queue)
          /\ canvas_image' = (canvas_image \/ cb.fn = "show_image")
          /\ buttons_state' = IF cb.fn = "set_buttons_state"
                              THEN SetButtonsState(TRUE) ELSE buttons_state
          /\ lbl_status' =
                CASE cb.fn = "status_ok" -> "ok"
                  [] cb.fn = "status_position" -> "posicion"
                  [] cb.fn = "status_error"
                     /\ (\E t \in threads : t.tid = cb.tid /\ t.e) -> "error"
                  [] OTHER -> lbl_status
    /\ UNCHANGED <<render_vars, ui, threads>>

WorkerStep ==
    \E t \in threads :
        \/ GetUrl(t)
        \/ Download(t)
        \/ PrepareTexts(t)
        \/ Render(t)
        \/ AfterShow(t)
        \/ AfterStatus(t)
        \/ Except(t)
        \/ ExceptEnd(t)
        \/ Finally(t)

GuiNext ==
    \/ OnTestApi
    \/ OnGenerateMeme
    \/ ThreadStart
    \/ RunCallback
    \/ WorkerStep

GuiSpec == GuiInit /\ [][GuiNext]_vars

\* The main loop keeps calling the callbacks of its queue and finishes the
\* handler it is in; a worker thread keeps running, and each of its network
\* calls has a timeout.  No click is ever required.
GuiFairSpec ==
    /\ GuiSpec
    /\ WF_vars(RunCallback)
    /\ WF_vars(ThreadStart)
    /\ WF_vars(WorkerStep)

Disabled == buttons_state = "disabled"

EnablePending ==
    \E k \in 1..Len(after_queue) : after_queue[k].fn = "set_buttons_state"

\* a worker thread is started / ends in this step
ThreadStarted == \E t \in threads' : t.tid \notin {u.tid : u \in threads}
ThreadEnded == \E t \in threads : t.tid \notin {u.tid : u \in threads'}

\* C16: a click disables the controls on the UI thread before its worker is
\* started; a worker, whatever its outcome, ends by registering the
\* re-enabling behind every callback it registered before; the controls are
\* never disabled without a handler running, a worker alive or the
\* re-enabling waiting in the queue; and disabled controls are eventually
\* enabled again.
C16_ControlsReenabled ==
    /\ [](Disabled => ui # "mainloop" \/ threads # {} \/ EnablePending)
    /\ [](\A k \in 1..Len(after_queue) :
              after_queue[k].fn = "set_buttons_state" => k = Len(after_queue))
    /\ [][ThreadStarted => Disabled /\ ui # "mainloop"]_vars
    /\ [][ThreadEnded =>
            \E t \in threads :
                /\ t.at = "finally"
                /\ after_queue' =
                      Append(after_queue, Callback("set_buttons_state", t.tid))]_vars
    /\ (Disabled ~> ~Disabled)

\* the controls are enabled again after a worker that failed and whose
\* error message was shown
C16_Witness ==
    /\ buttons_state = "normal"
    /\ lbl_status = "error"
    /\ threads = {}
    /\ after_queue = <<>>
====
